---------------------------- MODULE Spec2Model ----------------------------
(***************************************************************************)
(* Model of scripts/build_banks.py: the section segmenter                  *)
(* (parse_subject_blocks), the question extractor                          *)
(* (parse_questions_from_block) and the orchestration in main (merge per   *)
(* subject, deduplicate, write one bank per key).                          *)
(*                                                                         *)
(* Text.  A string is a sequence of tokens.  A token is a single character *)
(* wherever one of the program's patterns looks at characters (digits,     *)
(* option letters, separators, white space) and a whole word elsewhere     *)
(* ("BIOLOGY", "NATIONAL", "What").  Python's None is the string "None"    *)
(* for a subject key, -1 for an index and the empty string for a year      *)
(* (the code itself folds None and '' together with `or`).  Line indexes   *)
(* are 0-based as in the source; raw_lines[k] of the source is             *)
(* raw_lines[k + 1] here.                                                  *)
(***************************************************************************)
EXTENDS Integers, Sequences, FiniteSets, TLC

\* ------------------------------------------------------------------ bounds

\* longest document (number of lines) of the segmenter documents
MaxLines == 4

\* longest section (number of lines under the header) of the one-section documents
MaxBlockLines == 4

\* longest document (number of lines) of the general-knowledge documents
MaxBankLines == 5

\* number of times main is run on one input, one run after the other
MaxRuns == 2

\* longest run of lettered lines after the question of a section
MaxOptionLines == 6

\* ------------------------------------------------------------ characters

\* characters matched by \s and removed by str.strip()
WS == {" ", "\t"}

\* characters matched by \d
Digit == {"0", "1", "2", "3", "4", "5", "6", "7", "8", "9"}

\* str.upper() on one token
Upper(a) ==
    CASE a = "a" -> "A"
      [] a = "b" -> "B"
      [] a = "c" -> "C"
      [] a = "d" -> "D"
      [] a = "e" -> "E"
      [] a = "f" -> "F"
      [] a = "biology" -> "BIOLOGY"
      [] a = "chemistry" -> "CHEMISTRY"
      [] a = "physics" -> "PHYSICS"
      [] a = "general" -> "GENERAL"
      [] a = "knowledge" -> "KNOWLEDGE"
      [] a = "french" -> "FRENCH"
      [] a = "language" -> "LANGUAGE"
      [] a = "and" -> "AND"
      [] a = "General" -> "GENERAL"
      [] a = "national" -> "NATIONAL"
      [] a = "qualifying" -> "QUALIFYING"
      [] OTHER -> a

\* str.upper() on a string
UpperStr(s) == [k \in 1..Len(s) |-> Upper(s[k])]

\* s[k:] of Python for a 1-based position k (empty when k is past the end)
From(s, k) == IF k > Len(s) THEN << >> ELSE SubSeq(s, k, Len(s))

\* index of the first non-white-space token of s at or after k, Len(s)+1 if none
RECURSIVE SkipWs(_, _)
SkipWs(s, k) ==
    IF k <= Len(s) /\ s[k] \in WS THEN SkipWs(s, k + 1) ELSE k

\* index of the last non-white-space token of s at or before k, 0 if none
RECURSIVE LastInk(_, _)
LastInk(s, k) ==
    IF k >= 1 /\ s[k] \in WS THEN LastInk(s, k - 1) ELSE k

\* str.strip()
Strip(s) ==
    LET a == SkipWs(s, 1)
        b == LastInk(s, Len(s))
    IN  IF a > b THEN << >> ELSE SubSeq(s, a, b)

\* re.sub(r"\s+", " ", s): every run of white space becomes one space
RECURSIVE Collapse(_)
Collapse(s) ==
    IF s = << >> THEN << >>
    ELSE IF Head(s) \in WS THEN <<" ">> \o Collapse(From(s, SkipWs(s, 1)))
    ELSE <<Head(s)>> \o Collapse(Tail(s))

\* a plausible slip: trims the ends but leaves inner runs of white space
normalize_line_trim_only(s) == Strip(s)

normalize_line(s) == Collapse(Strip(s))

\* sep.join(parts)
RECURSIVE Join(_, _)
Join(parts, sep) ==
    IF parts = << >> THEN << >>
    ELSE IF Len(parts) = 1 THEN parts[1]
    ELSE parts[1] \o sep \o Join(Tail(parts), sep)

\* ---------------------------------------------------------------- patterns
\* A position is a 1-based index into the string; 0 means "no match".

\* one literal word or character at position k, compared case-insensitively (re.I)
Lit(s, k, a) ==
    IF k # 0 /\ k <= Len(s) /\ Upper(s[k]) = a THEN k + 1 ELSE 0

\* \s* at position k
Ws0(s, k) == IF k = 0 THEN 0 ELSE SkipWs(s, k)

\* \s+ at position k
Ws1(s, k) == IF k # 0 /\ k <= Len(s) /\ s[k] \in WS THEN SkipWs(s, k + 1) ELSE 0

\* the first position of ps that is a match, 0 if none (alternation, in order)
RECURSIVE FirstOf(_)
FirstOf(ps) ==
    IF ps = << >> THEN 0
    ELSE IF Head(ps) # 0 THEN Head(ps)
    ELSE FirstOf(Tail(ps))

\* YEAR_HEADER_RE = ^(20\d{2})\s+NATIONAL QUALIFYING   (re.I)
YEAR_HEADER_RE(s) ==
    /\ Len(s) >= 4
    /\ s[1] = "2"
    /\ s[2] = "0"
    /\ s[3] \in Digit
    /\ s[4] \in Digit
    /\ LET k == Lit(s, Ws1(s, 5), "NATIONAL")
       IN  /\ k # 0
           /\ k <= Len(s)
           /\ s[k] = " "
           /\ Lit(s, k + 1, "QUALIFYING") # 0

\* m_year.group(1)
YearGroup1(s) == SubSeq(s, 1, 4)

\* the end positions SUBJECT_LINE_RE's group 1 can take, in the order the
\* matcher tries them (alternatives left to right, an optional part first
\* taken, then skipped)
SubjectCandidates(s) ==
    LET gk  == Lit(s, Ws1(s, Lit(s, 1, "GENERAL")), "KNOWLEDGE")
        sf  == Lit(s, Ws1(s, Lit(s, Ws1(s, gk), "SCIENTIFIC")), "FIELD")
        amp == Ws0(s, FirstOf(<<Lit(s, Ws0(s, gk), "&"), Lit(s, Ws0(s, gk), "AND")>>))
        lf  == FirstOf(<<Lit(s, amp, "LANGUAGE"), Lit(s, amp, "FRENCH")>>)
        lfa == Lit(s, Lit(s, lf, "A"), ".")
        fr  == Lit(s, 1, "FRENCH")
        frl == Lit(s, Ws1(s, fr), "LANGUAGE")
    IN  << Lit(s, 1, "BIOLOGY"), Lit(s, 1, "CHEMISTRY"), Lit(s, 1, "PHYSICS"),
           sf, gk, lfa, lf, frl, fr >>

\* the candidates after which only white space is left: \s*$
RECURSIVE FirstToEnd(_, _)
FirstToEnd(s, ps) ==
    IF ps = << >> THEN 0
    ELSE IF Head(ps) # 0 /\ SkipWs(s, Head(ps)) > Len(s) THEN Head(ps)
    ELSE FirstToEnd(s, Tail(ps))

\* SUBJECT_LINE_RE = ^(BIOLOGY|CHEMISTRY|PHYSICS
\*    |GENERAL\s+KNOWLEDGE(?:\s+SCIENTIFIC\s+FIELD)?
\*    |GENERAL\s+\s*KNOWLEDGE\s*(?:&|AND)\s*(?:LANGUAGE|FRENCH)(?:A\.)?
\*    |FRENCH(?:\s+LANGUAGE)?)\s*$   (re.I)
SUBJECT_LINE_RE(s) == FirstToEnd(s, SubjectCandidates(s)) # 0

\* m_sub.group(1)
SubjectGroup1(s) == SubSeq(s, 1, FirstToEnd(s, SubjectCandidates(s)) - 1)

\* the number of digits QUESTION_START_RE's \d{1,3} takes: as many as there
\* are at the start of s, at most three
QDigits(s) ==
    IF Len(s) >= 1 /\ s[1] \in Digit
    THEN IF Len(s) >= 2 /\ s[2] \in Digit
         THEN IF Len(s) >= 3 /\ s[3] \in Digit THEN 3 ELSE 2
         ELSE 1
    ELSE 0

\* QUESTION_START_RE = ^(\d{1,3})\s*[\).]?\s*(.*)
QUESTION_START_RE(s) == QDigits(s) >= 1

\* m_q.group(1)
QuestionGroup1(s) == SubSeq(s, 1, QDigits(s))

\* a plausible slip: the number is left in the text
QuestionGroup2_with_number(s) == s

\* m_q.group(2)
QuestionGroup2(s) ==
    LET k1 == SkipWs(s, QDigits(s) + 1)
        k2 == IF k1 <= Len(s) /\ s[k1] \in {")", "."} THEN k1 + 1 ELSE k1
    IN  From(s, SkipWs(s, k2))

\* index of the first token of s at or after k that is not in [\s\-\u2022];
\* the bullet character U+2022 is written "*" in the model
RECURSIVE SkipBullets(_, _)
SkipBullets(s, k) ==
    IF k <= Len(s) /\ s[k] \in WS \cup {"-", "*"} THEN SkipBullets(s, k + 1) ELSE k

\* the letters OPTION_RE accepts: [A-Ea-e]
OptionLetters == {"A", "B", "C", "D", "E", "a", "b", "c", "d", "e"}

\* a plausible slip: the letter class goes on to F
OPTION_RE_through_F(s) ==
    LET k == SkipBullets(s, 1)
    IN  /\ k + 1 <= Len(s)
        /\ s[k] \in OptionLetters \cup {"F", "f"}
        /\ s[k + 1] \in {")", ".", "-", ":"}

\* OPTION_RE = ^[\s\-\u2022]*([A-Ea-e])[\).\-:]\s*(.*)
OPTION_RE(s) ==
    LET k == SkipBullets(s, 1)
    IN  /\ k + 1 <= Len(s)
        /\ s[k] \in OptionLetters
        /\ s[k + 1] \in {")", ".", "-", ":"}

\* m_opt.group(1)
OptionGroup1(s) == s[SkipBullets(s, 1)]

\* m_opt.group(2)
OptionGroup2(s) == From(s, SkipWs(s, SkipBullets(s, 1) + 2))

\* ------------------------------------------------------------- alias table

None == "None"

\* the header spellings SUBJECT_ALIASES has a key for
AliasKeys ==
    { <<"BIOLOGY">>, <<"CHEMISTRY">>, <<"PHYSICS">>,
      <<"GENERAL", " ", "KNOWLEDGE">>,
      <<"GENERAL", " ", "KNOWLEDGE", " ", "SCIENTIFIC", " ", "FIELD">>,
      <<"GENERAL", " ", " ", "KNOWLEDGE", " ", "AND", " ", "FRENCH">>,
      <<"GENERAL", " ", "KNOWLEDGE", " ", "&", " ", "LANGUAGE">>,
      <<"GENERAL", " ", "KNOWLEDGE", " ", "&", " ", "LANGUAGE", " ">>,
      <<"GENERAL", " ", "KNOWLEDGE", " ", "AND", " ", "FRENCH", "A", ".">>,
      <<"FRENCH">>, <<"FRENCH", " ", "LANGUAGE">> }

SUBJECT_ALIASES ==
    [t \in AliasKeys |->
        CASE t = <<"BIOLOGY">> -> "biology"
          [] t = <<"CHEMISTRY">> -> "chemistry"
          [] t = <<"PHYSICS">> -> "physics"
          [] t \in {<<"FRENCH">>, <<"FRENCH", " ", "LANGUAGE">>} -> "french"
          [] OTHER -> "general-knowledge"]

\* a plausible slip: a header the table has no entry for falls back to a key
AliasGet_fallback(title) ==
    IF title \in AliasKeys THEN SUBJECT_ALIASES[title] ELSE "general-knowledge"

\* a plausible slip: one entry of the table misspells its key
AliasGet_misspelt(title) ==
    IF title = <<"GENERAL", " ", "KNOWLEDGE", " ", "&", " ", "LANGUAGE">>
    THEN "general_knowledge"
    ELSE IF title \in AliasKeys THEN SUBJECT_ALIASES[title] ELSE None

\* SUBJECT_ALIASES.get(subject_title, None)
AliasGet(title) ==
    IF title \in AliasKeys THEN SUBJECT_ALIASES[title] ELSE None


\* ------------------------------------------------------- parse_subject_blocks

VARIABLES
    raw_lines,          \* main: the lines of the input file
    pc,                 \* main: where the run is: "segment", "blocks", "parse", "write", "done"
    i,                  \* parse_subject_blocks: index of the next line of the for loop
    current_year,       \* parse_subject_blocks
    last_subject_idx,   \* parse_subject_blocks (-1 is None)
    last_subject_key,   \* parse_subject_blocks
    blocks,             \* parse_subject_blocks: the list returned to main
    bi,                 \* main: number of blocks its for loop has finished
    qi,                 \* parse_questions_from_block: the cursor, its local i
    questions,          \* parse_questions_from_block: the list it builds
    last_iter,          \* parse_questions_from_block: the locals of the latest pass of its outer loop
    per_subject,        \* main: the ordered dict of lists, as a sequence of (key, items)
    wi,                 \* main: number of entries of per_subject its write loop has finished
    banks,              \* the files in the output directory, as a sequence of (key, records)
    earlier             \* the files as each earlier run of main left them, oldest first

vars == << raw_lines, pc, i, current_year, last_subject_idx, last_subject_key,
           blocks, bi, qi, questions, last_iter, per_subject, wi, banks, earlier >>

seg_vars == << i, current_year, last_subject_idx, last_subject_key, blocks >>

\* the tuple parse_subject_blocks appends: (year, subject_key, start_idx, end_idx)
Block(year, key, start, end) ==
    [year |-> year, subject_key |-> key, start_idx |-> start, end_idx |-> end]

\* a plausible slip: the section starts at its header line
SectionStart_at_header(idx) == idx

\* last_subject_idx = i + 1  (start after the header line)
SectionStart(idx) == idx + 1

\* one pass of the for loop of parse_subject_blocks, on line i
SegmentLine ==
    /\ pc = "segment"
    /\ i < Len(raw_lines)
    /\ LET line == normalize_line(raw_lines[i + 1])
           subject_key == AliasGet(UpperStr(SubjectGroup1(line)))
       IN  IF line = << >>
           THEN UNCHANGED << current_year, last_subject_idx, last_subject_key, blocks >>
           ELSE IF YEAR_HEADER_RE(line)
           THEN /\ current_year' = YearGroup1(line)
                /\ UNCHANGED << last_subject_idx, last_subject_key, blocks >>
           ELSE IF SUBJECT_LINE_RE(line) /\ subject_key # None
           THEN /\ blocks' =
                      IF last_subject_idx # -1 /\ last_subject_key # None
                      THEN Append(blocks, Block(current_year, last_subject_key,
                                                last_subject_idx, i))
                      ELSE blocks
                /\ last_subject_idx' = SectionStart(i)
                /\ last_subject_key' = subject_key
                /\ UNCHANGED current_year
           ELSE UNCHANGED << current_year, last_subject_idx, last_subject_key, blocks >>
    /\ i' = i + 1
    /\ UNCHANGED << raw_lines, pc, bi, qi, questions, last_iter, per_subject, wi, banks, earlier >>

\* a plausible slip: the section still open at the end of the input is lost
CloseTail_dropped(bs, year, key, idx, n) == bs

\* "close tail": the section still open at the end of the input
CloseTail(bs, year, key, idx, n) ==
    IF idx # -1 /\ key # None THEN Append(bs, Block(year, key, idx, n)) ELSE bs

\* the end of parse_subject_blocks: close the tail and return to main
SegmentReturn ==
    /\ pc = "segment"
    /\ i = Len(raw_lines)
    /\ blocks' = CloseTail(blocks, current_year, last_subject_key,
                           last_subject_idx, Len(raw_lines))
    /\ pc' = "blocks"
    /\ UNCHANGED << raw_lines, i, current_year, last_subject_idx, last_subject_key,
                    bi, qi, questions, last_iter, per_subject, wi, banks, earlier >>

\* ------------------------------------------------- parse_questions_from_block
\* block_lines is a sequence of raw lines; the cursors are 0-based as in the
\* source, so block_lines[k] of the source is bl[k + 1].

\* a plausible slip: only an option line ends the text of a question
RECURSIVE Accumulate_to_option(_, _, _)
Accumulate_to_option(bl, k, parts) ==
    IF k < Len(bl)
    THEN LET nl == normalize_line(bl[k + 1])
         IN  IF OPTION_RE(nl)
             THEN [i |-> k, qtext_parts |-> parts]
             ELSE Accumulate_to_option(bl, k + 1,
                                       IF nl # << >> THEN Append(parts, nl) ELSE parts)
    ELSE [i |-> k, qtext_parts |-> parts]

\* the inner loop "accumulate until we hit first option", from cursor k with
\* the parts gathered so far: the cursor where it stops and the parts
RECURSIVE Accumulate(_, _, _)
Accumulate(bl, k, parts) ==
    IF k < Len(bl)
    THEN LET nl == normalize_line(bl[k + 1])
         IN  IF OPTION_RE(nl) \/ QUESTION_START_RE(nl)
             THEN [i |-> k, qtext_parts |-> parts]
             ELSE Accumulate(bl, k + 1, IF nl # << >> THEN Append(parts, nl) ELSE parts)
    ELSE [i |-> k, qtext_parts |-> parts]

\* a plausible slip: a blank line ends the wrapped text of an option
RECURSIVE Coalesce_stop_at_blank(_, _, _)
Coalesce_stop_at_blank(bl, j, parts) ==
    IF j < Len(bl)
    THEN LET nl2 == normalize_line(bl[j + 1])
         IN  IF nl2 = << >> \/ OPTION_RE(nl2) \/ QUESTION_START_RE(nl2)
             THEN [j |-> j, cont_parts |-> parts]
             ELSE Coalesce_stop_at_blank(bl, j + 1, Append(parts, nl2))
    ELSE [j |-> j, cont_parts |-> parts]

\* the loop "coalesce wrapped option lines", from cursor j with the parts
\* gathered so far: the cursor where it stops and the parts
RECURSIVE Coalesce(_, _, _)
Coalesce(bl, j, parts) ==
    IF j < Len(bl)
    THEN LET nl2 == normalize_line(bl[j + 1])
         IN  IF nl2 = << >> THEN Coalesce(bl, j + 1, parts)
             ELSE IF OPTION_RE(nl2) \/ QUESTION_START_RE(nl2)
             THEN [j |-> j, cont_parts |-> parts]
             ELSE Coalesce(bl, j + 1, Append(parts, nl2))
    ELSE [j |-> j, cont_parts |-> parts]

\* opt_text after the "if cont_parts:" statement
OptText(opt_text, cont_parts) ==
    IF cont_parts # << >>
    THEN normalize_line(opt_text \o <<" ">> \o Join(cont_parts, <<" ">>))
    ELSE opt_text

\* A Python dict keeps its keys in insertion order: it is a sequence of
\* (key, val) entries with distinct keys.
DictHas(d, key) == \E k \in 1..Len(d) : d[k].key = key

\* d[key]
DictGet(d, key) == d[CHOOSE k \in 1..Len(d) : d[k].key = key].val

\* a plausible slip: a key already in the dict keeps its value
DictSet_keep_first(d, key, val) ==
    IF DictHas(d, key) THEN d ELSE Append(d, [key |-> key, val |-> val])

\* d[key] = val
DictSet(d, key, val) ==
    IF DictHas(d, key)
    THEN [k \in 1..Len(d) |-> IF d[k].key = key THEN [key |-> key, val |-> val] ELSE d[k]]
    ELSE Append(d, [key |-> key, val |-> val])

\* d.keys() as a set
DictKeys(d) == { d[k].key : k \in 1..Len(d) }

\* the loop "gather options", from cursor k: the cursor where it stops, the
\* dict options, and the assignments options[letter] = opt_text it made, in
\* order, each with the cursor of its option line and the cursor j it left
RECURSIVE GatherOptions(_, _, _, _)
GatherOptions(bl, k, options, assigned) ==
    IF k < Len(bl)
    THEN LET nl == normalize_line(bl[k + 1])
         IN  IF ~OPTION_RE(nl)
             THEN IF QUESTION_START_RE(nl)
                  THEN [i |-> k, options |-> options, assigned |-> assigned]
                  ELSE GatherOptions(bl, k + 1, options, assigned)
             ELSE LET letter == Upper(OptionGroup1(nl))
                      c == Coalesce(bl, k + 1, << >>)
                      opt_text == OptText(Strip(OptionGroup2(nl)), c.cont_parts)
                  IN  GatherOptions(bl, c.j, DictSet(options, letter, opt_text),
                                    Append(assigned, [line |-> k, letter |-> letter,
                                                      opt_text |-> opt_text, j |-> c.j]))
    ELSE [i |-> k, options |-> options, assigned |-> assigned]

\* the place of an upper-case option letter in the order sorted() uses
LetterRank(l) ==
    CASE l = "A" -> 1 [] l = "B" -> 2 [] l = "C" -> 3 [] l = "D" -> 4 [] l = "E" -> 5
      [] l = "F" -> 6

\* sorted(keys)
RECURSIVE Sorted(_)
Sorted(keys) ==
    IF keys = {} THEN << >>
    ELSE LET m == CHOOSE x \in keys : \A y \in keys : LetterRank(x) <= LetterRank(y)
         IN  <<m>> \o Sorted(keys \ {m})

\* a plausible slip: the options in the order their letters were first seen
OrderedOptions_as_seen(options) == [k \in 1..Len(options) |-> options[k].val]

\* opts: the option texts ordered by letter, [] when no option was gathered
OrderedOptions(options) ==
    IF options # << >>
    THEN LET ordered_letters == Sorted(DictKeys(options))
         IN  [k \in 1..Len(ordered_letters) |-> DictGet(options, ordered_letters[k])]
    ELSE << >>

\* question_text = normalize_line(' '.join(qtext_parts)).strip()
QuestionText(qtext_parts) == Strip(normalize_line(Join(qtext_parts, <<" ">>)))

\* a plausible slip: the test "if not question_text: continue" is missing
Emits_always(question_text) == TRUE

\* "if not question_text: continue": only a non-empty text is emitted
Emits(question_text) == question_text # << >>

\* the dict parse_questions_from_block appends
Question(question_text, opts, default_year) ==
    [question |-> question_text, options |-> opts, answer |-> None,
     year |-> default_year]

\* a plausible slip: a line that starts no question leaves the cursor in place
SkipPass_stays(k) ==
    [start |-> k, i |-> k, started |-> FALSE, emitted |-> FALSE,
     question_text |-> << >>, opts |-> << >>, options |-> << >>, assigned |-> << >>,
     text_end |-> k]

\* what a pass of the outer loop that starts no question leaves
SkipPass(k) ==
    [start |-> k, i |-> k + 1, started |-> FALSE, emitted |-> FALSE,
     question_text |-> << >>, opts |-> << >>, options |-> << >>, assigned |-> << >>,
     text_end |-> k + 1]

\* one pass of the outer while loop of parse_questions_from_block at cursor k:
\* the cursor it leaves in i and the values of its locals
OuterPass(bl, k) ==
    LET line == normalize_line(bl[k + 1])
    IN  IF line = << >> \/ ~QUESTION_START_RE(line) THEN SkipPass(k)
        ELSE LET a == Accumulate(bl, k + 1, <<Strip(QuestionGroup2(line))>>)
                 g == GatherOptions(bl, a.i, << >>, << >>)
                 question_text == QuestionText(a.qtext_parts)
             IN  [start |-> k, i |-> g.i, started |-> TRUE,
                  emitted |-> Emits(question_text),
                  question_text |-> question_text,
                  opts |-> OrderedOptions(g.options),
                  options |-> g.options, assigned |-> g.assigned,
                  text_end |-> a.i]

\* ----------------------------------------------------------------------- main

\* the keys main creates per_subject with, in order
CanonicalKeys == <<"biology", "chemistry", "physics", "general-knowledge", "french">>

\* a plausible slip: the slice starts at the top of the document
SubLines_from_top(b) ==
    IF 0 < b.end_idx THEN SubSeq(raw_lines, 1, b.end_idx) ELSE << >>

\* sub_lines = raw_lines[start:end]
SubLines(b) ==
    IF b.start_idx < b.end_idx
    THEN SubSeq(raw_lines, b.start_idx + 1, b.end_idx)
    ELSE << >>

\* the block main's for loop is working on
CurBlock == blocks[bi + 1]

\* main's for loop takes the next block and calls parse_questions_from_block
CallParse ==
    /\ pc = "blocks"
    /\ bi < Len(blocks)
    /\ pc' = "parse"
    /\ qi' = 0
    /\ questions' = << >>
    /\ last_iter' = SkipPass(-1)
    /\ UNCHANGED << raw_lines, seg_vars, bi, per_subject, wi, banks, earlier >>

\* one pass of the outer while loop of parse_questions_from_block
ParsePass ==
    /\ pc = "parse"
    /\ qi < Len(SubLines(CurBlock))
    /\ LET p == OuterPass(SubLines(CurBlock), qi)
       IN  /\ qi' = p.i
           /\ last_iter' = p
           /\ questions' =
                  IF p.emitted
                  THEN Append(questions, Question(p.question_text, p.opts, CurBlock.year))
                  ELSE questions
    /\ UNCHANGED << raw_lines, pc, seg_vars, bi, per_subject, wi, banks, earlier >>

\* a plausible slip: the list of a section replaces the list of its subject
Extend_overwrite(d, key, qs) == DictSet(d, key, qs)

\* per_subject.setdefault(subject_key, []); per_subject[subject_key].extend(qs)
Extend(d, key, qs) ==
    LET d1 == IF DictHas(d, key) THEN d ELSE DictSet(d, key, << >>)
    IN  DictSet(d1, key, DictGet(d1, key) \o qs)

\* parse_questions_from_block returns and main merges its list
ParseReturn ==
    /\ pc = "parse"
    /\ qi >= Len(SubLines(CurBlock))
    /\ per_subject' = Extend(per_subject, CurBlock.subject_key, questions)
    /\ bi' = bi + 1
    /\ pc' = "blocks"
    /\ UNCHANGED << raw_lines, seg_vars, qi, questions, last_iter, wi, banks, earlier >>

\* the for loop is over: os.makedirs, then the write loop
MakeDirs ==
    /\ pc = "blocks"
    /\ bi = Len(blocks)
    /\ pc' = "write"
    /\ UNCHANGED << raw_lines, seg_vars, bi, qi, questions, last_iter, per_subject,
                    wi, banks, earlier >>

\* a plausible slip: a later record replaces the earlier one with the same text
RECURSIVE Dedupe_last_wins(_, _, _)
Dedupe_last_wins(items, seen, deduped) ==
    IF items = << >> THEN deduped
    ELSE LET it == Head(items)
             t == it.question
         IN  IF t \in seen
             THEN Dedupe_last_wins(Tail(items), seen,
                      [k \in 1..Len(deduped) |->
                          IF deduped[k].question = t THEN it ELSE deduped[k]])
             ELSE Dedupe_last_wins(Tail(items), seen \cup {t}, Append(deduped, it))

\* the loop "for it in items" of main with its set seen and its list deduped
RECURSIVE Dedupe(_, _, _)
Dedupe(items, seen, deduped) ==
    IF items = << >> THEN deduped
    ELSE LET it == Head(items)
             t == it.question
         IN  IF t \in seen
             THEN Dedupe(Tail(items), seen, deduped)
             ELSE Dedupe(Tail(items), seen \cup {t}, Append(deduped, it))

\* a plausible slip: the file is opened for appending
WriteFile_append(files, key, records) ==
    IF DictHas(files, key)
    THEN DictSet(files, key, DictGet(files, key) \o records)
    ELSE DictSet(files, key, records)

\* open(out_path, 'w') and json.dump: the file of key holds records and
\* nothing else, whether or not it was there before
WriteFile(files, key, records) == DictSet(files, key, records)

\* one pass of main's write loop: deduplicate one entry and write its file
WriteBank ==
    /\ pc = "write"
    /\ wi < Len(per_subject)
    /\ LET e == per_subject[wi + 1]
       IN  banks' = WriteFile(banks, e.key, Dedupe(e.val, {}, << >>))
    /\ wi' = wi + 1
    /\ pc' = IF wi + 1 = Len(per_subject) THEN "done" ELSE "write"
    /\ UNCHANGED << raw_lines, seg_vars, bi, qi, questions, last_iter, per_subject,
                    earlier >>

Next ==
    \/ SegmentLine
    \/ SegmentReturn
    \/ CallParse
    \/ ParsePass
    \/ ParseReturn
    \/ MakeDirs
    \/ WriteBank

\* what main and the functions it calls hold when main starts: nothing of
\* an earlier run but the files
Fresh ==
    [pc |-> "segment", i |-> 0, current_year |-> << >>, last_subject_idx |-> -1,
     last_subject_key |-> None, blocks |-> << >>, bi |-> 0, qi |-> 0,
     questions |-> << >>, last_iter |-> SkipPass(-1),
     per_subject |-> [k \in 1..Len(CanonicalKeys) |->
                         [key |-> CanonicalKeys[k], val |-> << >>]],
     wi |-> 0]

\* the program is run again on the same input file and output directory
RunAgain ==
    /\ pc = "done"
    /\ Len(earlier) + 1 < MaxRuns
    /\ earlier' = Append(earlier, banks)
    /\ pc' = Fresh.pc
    /\ i' = Fresh.i
    /\ current_year' = Fresh.current_year
    /\ last_subject_idx' = Fresh.last_subject_idx
    /\ last_subject_key' = Fresh.last_subject_key
    /\ blocks' = Fresh.blocks
    /\ bi' = Fresh.bi
    /\ qi' = Fresh.qi
    /\ questions' = Fresh.questions
    /\ last_iter' = Fresh.last_iter
    /\ per_subject' = Fresh.per_subject
    /\ wi' = Fresh.wi
    /\ UNCHANGED << raw_lines, banks >>

\* main, run after run
NextRuns ==
    \/ Next
    \/ RunAgain

\* the state main starts parse_subject_blocks in, on the document doc
Start(doc) ==
    /\ earlier = << >>
    /\ raw_lines = doc
    /\ pc = "segment"
    /\ i = 0
    /\ current_year = << >>
    /\ last_subject_idx = -1
    /\ last_subject_key = None
    /\ blocks = << >>
    /\ bi = 0
    /\ qi = 0
    /\ questions = << >>
    /\ last_iter = SkipPass(-1)
    /\ per_subject = [k \in 1..Len(CanonicalKeys) |-> [key |-> CanonicalKeys[k], val |-> << >>]]
    /\ wi = 0
    /\ banks = << >>

\* ------------------------------------------------------------- input documents
\* The lines the model builds its documents from.

L_blank == <<" ", "\t">>
L_year22 == <<"2", "0", "2", "2", " ", "NATIONAL", " ", "QUALIFYING", " ", "EXAM">>
L_year23 == <<" ", "2", "0", "2", "3", "\t", "national", " ", " ", "qualifying">>
L_bio == <<"BIOLOGY">>
L_chem == <<"chemistry", " ">>
L_gkl == <<"GENERAL", " ", "KNOWLEDGE", " ", "&", " ", "LANGUAGE">>
L_gksf == <<"General", "\t", "knowledge", " ", " ", "SCIENTIFIC", " ", "FIELD">>
L_gkaf == <<"GENERAL", " ", " ", "KNOWLEDGE", " ", "AND", " ", "FRENCH">>
L_math == <<"MATHEMATICS">>
L_q1 == <<" ", "1", ")", "\t", " ", "What">>
L_q3 == <<"1", "2", " ", "Why", " ", " ", "so">>
L_qempty == <<"7", ")", " ">>
L_optA == <<"A", ")", " ", "x">>
L_optB == <<"b", ".", "y", " ", " ", "z">>
L_optA2 == <<"-", " ", "A", ":", "w">>
L_optE == <<"e", ")">>
L_text == <<"more", "\t", " ", "text">>

\* the lines of the spec's first end-to-end scenario, and other spellings
L_year22b == <<" ", "2", "0", "2", "2", " ", " ", "national", " ", "qualifying">>
L_bio2 == <<" ", "biology", "\t">>
L_qcell == <<"1", ")", " ", "What", " ", "is", " ", "the", " ", "powerhouse", " ",
             "of", " ", "the", " ", "cell?">>
L_nucleus == <<"A", ")", " ", "Nucleus">>
L_mito == <<"B", ")", " ", "Mitochondria">>
L_ribo == <<"C", ")", " ", "Ribosome">>
L_optC2 == <<"*", " ", "c", "-", "s", "\t">>

\* lines lettered D, E and F
L_optD == <<"d", ".", " ", "four">>
L_five == <<" ", "E", ":", "five">>
L_optF == <<"F", ")", " ", "six">>

\* the lines of the documents that exercise the segmenter
SegLines == {L_blank, L_year22, L_year23, L_bio, L_chem, L_gkl, L_gkaf, L_math, L_q1}

\* the lines of the sections that exercise the extractor
BlockLines == {L_blank, L_q1, L_qempty, L_optA, L_optB, L_optA2, L_optE, L_text}

\* the lines of the documents that exercise the merge and the deduplication
BankLines == {L_gkl, L_gksf, L_year22, L_q1, L_q3, L_optA}

\* the sequences over S of length at most n
SeqsUpTo(S, n) == UNION { [1..m -> S] : m \in 0..n }

\* documents of header lines, blank lines and a question line
SegDocs == SeqsUpTo(SegLines, MaxLines)

\* documents of one BIOLOGY section
BlockDocs == { <<L_bio>> \o d : d \in SeqsUpTo(BlockLines, MaxBlockLines) }

\* documents of general-knowledge sections under two header spellings
BankDocs == SeqsUpTo(BankLines, MaxBankLines)

\* documents of the shape of the first end-to-end scenario: a 2022 year
\* header, a BIOLOGY header, a numbered question, options A, B, C in order
ScenarioDocs ==
    { <<y, b, q, oa, ob, oc>> :
        y \in {L_year22, L_year22b}, b \in {L_bio, L_bio2},
        q \in {L_qcell, L_q1, L_q3},
        oa \in {L_nucleus, L_optA2}, ob \in {L_mito, L_optB}, oc \in {L_ribo, L_optC2} }

\* the lettered lines that follow the question of the sections with options
OptionLines == {L_nucleus, L_mito, L_ribo, L_optD, L_five, L_optF, L_optA2}

\* a BIOLOGY section of one question followed by up to MaxOptionLines
\* different lettered lines in any order
OptionDocs ==
    { <<L_bio, L_q1>> \o d : d \in { e \in SeqsUpTo(OptionLines, MaxOptionLines) :
                                       \A a, b \in 1..Len(e) : a # b => e[a] # e[b] } }

InitSeg == \E doc \in SegDocs : Start(doc)

InitOptions == \E doc \in OptionDocs : Start(doc)

InitScenario == \E doc \in ScenarioDocs : Start(doc)

InitBlock == \E doc \in BlockDocs : Start(doc)

InitBank == \E doc \in BankDocs : Start(doc)

\* main on the segmenter documents
Spec == InitSeg /\ [][Next]_vars

\* main on the one-section documents
SpecBlock == InitBlock /\ [][Next]_vars

\* main on the general-knowledge documents
SpecBank == InitBank /\ [][Next]_vars

\* The interpreter runs the one thread of main until it returns: weak
\* fairness of Next.  Next is enabled exactly in the states with pc # "done",
\* so WF_vars(Next) is written with that state predicate in the place of
\* ENABLED <<Next>>_vars.
Running == []<>(pc = "done") \/ []<><<Next>>_vars

\* the same, with the program always taking its next step
SpecBlockFair == InitBlock /\ [][Next]_vars /\ Running

\* main on the documents of the first end-to-end scenario
SpecScenario == InitScenario /\ [][Next]_vars

\* main on the sections of one question and many lettered lines
SpecOptions == InitOptions /\ [][Next]_vars

\* main run MaxRuns times on each one-section document
SpecRuns == InitBlock /\ [][NextRuns]_vars

\* ------------------------------------------------------------------ properties
\* What the lines above are, stated line by line rather than by the patterns.

\* the canonical key of a recognized subject header line, None for any other line
HeaderKey(raw) ==
    CASE raw \in {L_bio, L_bio2} -> "biology"
      [] raw = L_chem -> "chemistry"
      [] raw \in {L_gkl, L_gksf} -> "general-knowledge"
      [] OTHER -> None

\* the year of a year header line, the empty string for any other line
HeaderYear(raw) ==
    CASE raw \in {L_year22, L_year22b} -> <<"2", "0", "2", "2">>
      [] raw = L_year23 -> <<"2", "0", "2", "3">>
      [] OTHER -> << >>

\* line k (0-based) of a section starts an option or a question
IsStop(bl, k) ==
    LET nl == normalize_line(bl[k + 1])
    IN  OPTION_RE(nl) \/ QUESTION_START_RE(nl)

\* the first line after line k that starts an option or a question, Len(bl) if none
StopAfter(bl, k) ==
    CHOOSE m \in (k + 1)..Len(bl) :
        /\ m = Len(bl) \/ IsStop(bl, m)
        /\ \A h \in (k + 1)..(m - 1) : ~IsStop(bl, h)

NonEmpty(x) == x # << >>

\* the non-blank lines strictly between lines k and m, normalized, in order
Between(bl, k, m) ==
    SelectSeq([h \in 1..(m - k - 1) |-> normalize_line(bl[k + h + 1])], NonEmpty)

\* the pieces that are not empty, joined by single spaces
JoinText(pieces) == Join(SelectSeq(pieces, NonEmpty), <<" ">>)

\* the text a question that starts on line k of section bl accumulates: the
\* rest of its line after the number and every non-blank line up to the next
\* option or question start
AccumulatedText(bl, k) ==
    JoinText(<<QuestionGroup2(normalize_line(bl[k + 1]))>> \o Between(bl, k, StopAfter(bl, k)))

\* the records of every list the run holds: the list being built, the merged
\* lists and the banks written
AllRecords ==
    { questions[k] : k \in 1..Len(questions) }
    \cup UNION { { per_subject[e].val[k] : k \in 1..Len(per_subject[e].val) }
                 : e \in 1..Len(per_subject) }
    \cup UNION { { banks[e].val[k] : k \in 1..Len(banks[e].val) } : e \in 1..Len(banks) }

\* C1: every question record that parse_questions_from_block emits, and so
\* every record of every merged list and bank, has a question text that is
\* not empty after white-space normalization; a pass of the outer loop that
\* starts a question whose accumulated text is empty appends no record.
C1_QuestionTextNonEmpty ==
    /\ [](\A r \in AllRecords : normalize_line(r.question) # << >>)
    /\ [][(pc = "parse" /\ pc' = "parse"
             /\ QUESTION_START_RE(normalize_line(SubLines(CurBlock)[qi + 1]))
             /\ AccumulatedText(SubLines(CurBlock), qi) = << >>)
          => questions' = questions]_vars

\* C1: a question start with empty text was dropped after a record was emitted
C1_Witness ==
    /\ pc = "parse"
    /\ last_iter.started
    /\ ~last_iter.emitted
    /\ last_iter.question_text = << >>
    /\ Len(questions) >= 1

\* the option letter on line k (0-based) of the section being parsed, upper-cased
LineLetter(k) == Upper(OptionGroup1(normalize_line(SubLines(CurBlock)[k + 1])))

\* C3: the options of an emitted record are in ascending order of the letters
\* of the option lines they were read from, whatever the order of those lines.
C3_OptionsByLetter ==
    (pc = "parse" /\ last_iter.emitted /\ last_iter.opts # << >>) =>
        LET r == questions[Len(questions)]
            a == last_iter.assigned
        IN  \E f \in [1..Len(r.options) -> 1..Len(a)] :
                /\ \A k \in 1..Len(r.options) : r.options[k] = a[f[k]].opt_text
                /\ \A k \in 1..(Len(r.options) - 1) :
                       LetterRank(LineLetter(a[f[k]].line))
                           < LetterRank(LineLetter(a[f[k + 1]].line))

\* C3: a record whose option B line came before its option A line
C3_Witness ==
    /\ pc = "parse"
    /\ last_iter.emitted
    /\ Len(last_iter.assigned) = 2
    /\ LineLetter(last_iter.assigned[1].line) = "B"
    /\ LineLetter(last_iter.assigned[2].line) = "A"
    /\ questions[Len(questions)].options
           = <<last_iter.assigned[2].opt_text, last_iter.assigned[1].opt_text>>
    /\ last_iter.assigned[1].opt_text # last_iter.assigned[2].opt_text

\* the text the option on line k of section bl has: the text on its own line
\* and every non-blank line up to the next option or question start
WrappedOption(bl, k) ==
    JoinText(<<OptionGroup2(normalize_line(bl[k + 1]))>> \o Between(bl, k, StopAfter(bl, k)))

\* C10: the text of every option line read is the text on its own line followed
\* by every later non-blank line up to the first line that starts an option or
\* a question, or the end of the section, joined by single spaces; blank lines
\* add nothing and do not end it.  The options of an emitted record are such texts.
C10_OptionAbsorbsWrappedLines ==
    pc = "parse" =>
        /\ \A k \in 1..Len(last_iter.assigned) :
               LET a == last_iter.assigned[k]
               IN  /\ a.opt_text = WrappedOption(SubLines(CurBlock), a.line)
                   /\ a.j = StopAfter(SubLines(CurBlock), a.line)
        /\ last_iter.emitted =>
               \A o \in 1..Len(questions[Len(questions)].options) :
                   \E k \in 1..Len(last_iter.assigned) :
                       questions[Len(questions)].options[o]
                           = WrappedOption(SubLines(CurBlock), last_iter.assigned[k].line)

\* C10: an emitted record with an option that wraps over a blank line
C10_Witness ==
    /\ pc = "parse"
    /\ last_iter.emitted
    /\ \E k \in 1..Len(last_iter.assigned) :
           LET a == last_iter.assigned[k]
               bl == SubLines(CurBlock)
           IN  /\ a.j >= a.line + 3
               /\ normalize_line(bl[a.line + 2]) = << >>
               /\ normalize_line(bl[a.line + 3]) # << >>
               /\ a.opt_text = <<"x", " ", "more", " ", "text">>
               /\ <<"x", " ", "more", " ", "text">>
                      \in { questions[Len(questions)].options[o] :
                              o \in 1..Len(questions[Len(questions)].options) }

\* the 0-based indexes of the recognized subject header lines of the document
Headers == { h \in 0..(Len(raw_lines) - 1) : HeaderKey(raw_lines[h + 1]) # None }

\* the first recognized subject header after line h, the document length if none
NextHeader(h) ==
    IF \E g \in Headers : g > h
    THEN CHOOSE g \in Headers : g > h /\ \A f \in Headers : f > h => g <= f
    ELSE Len(raw_lines)

\* the year of the latest year header line before line h, unset if none
YearBefore(h) ==
    LET ys == { y \in 0..(h - 1) : HeaderYear(raw_lines[y + 1]) # << >> }
    IN  IF ys = {} THEN << >>
        ELSE HeaderYear(raw_lines[(CHOOSE y \in ys : \A z \in ys : z <= y) + 1])

\* C2: every section carries the year of the latest year header before its
\* subject header (unset if none), and so does every record extracted from it,
\* also when a year header follows inside the section.
C2_SectionYearIsHeaderYear ==
    /\ pc # "segment" =>
           \A k \in 1..Len(blocks) : blocks[k].year = YearBefore(blocks[k].start_idx - 1)
    /\ pc = "parse" =>
           \A k \in 1..Len(questions) : questions[k].year = YearBefore(CurBlock.start_idx - 1)

\* the bank written for key and the merged list it was written from
BankOf(key) == DictGet(banks, key)
ItemsOf(key) == DictGet(per_subject, key)

\* C4: a bank has no two records with the same question text, and for each
\* question text of the merged list of its subject it holds the first record
\* of that list with that text, whatever the years and options of the others.
C4_FirstOccurrenceWins ==
    \A e \in 1..Len(banks) :
        LET bank == banks[e].val
            items == ItemsOf(banks[e].key)
        IN  /\ \A j, k \in 1..Len(bank) : j # k => bank[j].question # bank[k].question
            /\ \A m \in 1..Len(items) : \E j \in 1..Len(bank) :
                   bank[j].question = items[m].question
            /\ \A j \in 1..Len(bank) : \E m \in 1..Len(items) :
                   /\ bank[j] = items[m]
                   /\ \A n \in 1..(m - 1) : items[n].question # items[m].question

\* C4: a bank that dropped a later record with the text of an earlier one of
\* another section and another year, and kept the earlier one
C4_Witness ==
    /\ pc = "done"
    /\ Len(blocks) >= 2
    /\ \E e \in 1..Len(banks) :
           LET bank == banks[e].val
               items == ItemsOf(banks[e].key)
           IN  /\ Len(bank) < Len(items)
               /\ \E m, n \in 1..Len(items) :
                      /\ m < n
                      /\ items[m].question = items[n].question
                      /\ items[m].year # items[n].year
                      /\ items[m] \in { bank[j] : j \in 1..Len(bank) }

\* a line that is neither blank, nor a year header, nor a recognized subject header
Transparent(raw) ==
    /\ normalize_line(raw) # << >>
    /\ HeaderYear(raw) = << >>
    /\ HeaderKey(raw) = None

\* C5: a pass of the segmenter's loop over a header line that resolves to no
\* alias (MATHEMATICS, or a line of the header pattern the table does not
\* have) emits no section and leaves the pending section's key and start and
\* the current year as they are; the open section runs through that line.
C5_UnknownHeaderIsTransparent ==
    /\ [][(pc = "segment" /\ i < Len(raw_lines) /\ Transparent(raw_lines[i + 1]))
          => /\ blocks' = blocks
             /\ last_subject_idx' = last_subject_idx
             /\ last_subject_key' = last_subject_key
             /\ current_year' = current_year]_vars
    /\ [](pc # "segment" =>
            \A h \in 0..(Len(raw_lines) - 1) :
                (Transparent(raw_lines[h + 1]) /\ \E g \in Headers : g < h)
                    => \E k \in 1..Len(blocks) :
                           /\ blocks[k].start_idx <= h
                           /\ h < blocks[k].end_idx
                           /\ blocks[k].start_idx - 1 \in Headers
                           /\ \A g \in Headers : ~(blocks[k].start_idx - 1 < g /\ g < h))

\* C5: the segmenter has just passed a line of the header pattern that has no
\* alias, with a section pending and a year set, and they are as before
C5_Witness ==
    /\ pc = "segment"
    /\ i = 3
    /\ raw_lines[1] = L_year22
    /\ raw_lines[2] = L_bio
    /\ raw_lines[3] = L_gkaf
    /\ SUBJECT_LINE_RE(normalize_line(raw_lines[3]))
    /\ blocks = << >>
    /\ last_subject_idx = 2
    /\ last_subject_key = "biology"
    /\ current_year = <<"2", "0", "2", "2">>

\* the recognized header lines in ascending order
RECURSIVE Ascending(_)
Ascending(S) ==
    IF S = {} THEN << >>
    ELSE LET m == CHOOSE x \in S : \A y \in S : x <= y
         IN  <<m>> \o Ascending(S \ {m})

\* C6: parse_subject_blocks returns one section per recognized subject header,
\* in document order; each runs from the line after its header to the next
\* recognized subject header, the last one to the end of the document; so
\* start <= end and no two sections overlap.
C6_OneSectionPerHeader ==
    pc # "segment" =>
        LET hs == Ascending(Headers)
        IN  /\ Len(blocks) = Len(hs)
            /\ \A k \in 1..Len(blocks) :
                   /\ blocks[k].subject_key = HeaderKey(raw_lines[hs[k] + 1])
                   /\ blocks[k].start_idx = hs[k] + 1
                   /\ blocks[k].end_idx = IF k < Len(hs) THEN hs[k + 1] ELSE Len(raw_lines)
                   /\ blocks[k].start_idx <= blocks[k].end_idx
            /\ \A j, k \in 1..Len(blocks) :
                   j < k => blocks[j].end_idx <= blocks[k].start_idx

\* C6: two sections, the first with lines in it, the last closed at the end
\* of the document
C6_Witness ==
    /\ pc = "blocks"
    /\ Len(blocks) = 2
    /\ blocks[1].start_idx < blocks[1].end_idx
    /\ blocks[2].start_idx < blocks[2].end_idx
    /\ blocks[2].end_idx = Len(raw_lines)

\* the header on line h is directly followed by a recognized header or ends the document
NothingUnder(h) ==
    h + 1 = Len(raw_lines) \/ HeaderKey(raw_lines[h + 2]) # None

\* C7: a recognized subject header directly followed by another one, or on
\* the last line, gets a section with start = end; the extractor returns no
\* question for it, and the run goes on: main merges the empty list, which
\* changes no list, and takes the next section.
C7_EmptySection ==
    /\ [](pc # "segment" =>
            \A h \in Headers : NothingUnder(h) =>
                \E k \in 1..Len(blocks) :
                    /\ blocks[k].start_idx = h + 1
                    /\ blocks[k].end_idx = h + 1)
    /\ []((pc = "parse" /\ NothingUnder(CurBlock.start_idx - 1)) =>
            /\ questions = << >>
            /\ qi = Len(SubLines(CurBlock)))
    /\ [][(pc = "parse" /\ NothingUnder(CurBlock.start_idx - 1)) =>
            /\ pc' = "blocks"
            /\ bi' = bi + 1
            /\ per_subject' = per_subject]_vars

\* C7: the run is over, its first section was empty and a later one gave a record
C7_Witness ==
    /\ pc = "done"
    /\ Len(blocks) >= 2
    /\ blocks[1].start_idx = blocks[1].end_idx
    /\ NothingUnder(blocks[1].start_idx - 1)
    /\ \E e \in 1..Len(banks) : banks[e].val # << >>

\* the set of the canonical keys
CanonicalKeySet == { CanonicalKeys[k] : k \in 1..Len(CanonicalKeys) }

\* C8: the key of every section is one of the five canonical keys, and main
\* writes five banks, one per canonical key, an empty one for a key without
\* section or question.
C8_FiveBanks ==
    /\ \A k \in 1..Len(blocks) : blocks[k].subject_key \in CanonicalKeySet
    /\ last_subject_key \in CanonicalKeySet \cup {None}
    /\ DictKeys(per_subject) = CanonicalKeySet
    /\ Len(per_subject) = 5
    /\ pc = "done" =>
           /\ Len(banks) = 5
           /\ DictKeys(banks) = CanonicalKeySet

\* C8: the run is over with sections, a bank with a record and a bank with none
C8_Witness ==
    /\ pc = "done"
    /\ blocks # << >>
    /\ Len(banks) = 5
    /\ \E e \in 1..Len(banks) : banks[e].val # << >>
    /\ \E e \in 1..Len(banks) : banks[e].val = << >>

\* the key of the section line h lies in: that of the latest recognized
\* subject header before it; None for a header line and before the first one
SectionKeyOf(h) ==
    IF h \in Headers \/ ~ \E g \in Headers : g < h THEN None
    ELSE HeaderKey(raw_lines[(CHOOSE g \in Headers :
                                 g < h /\ \A f \in Headers : f < h => f <= g) + 1])

\* the text of the question that starts on document line h: what it
\* accumulates within its section
DocQuestionText(h) ==
    LET g == CHOOSE g \in Headers : g < h /\ \A f \in Headers : f < h => f <= g
        bl == IF g + 1 < NextHeader(h) THEN SubSeq(raw_lines, g + 2, NextHeader(h)) ELSE << >>
    IN  AccumulatedText(bl, h - g - 1)

\* the texts of the questions of the sections of key, in document order, from line h on
RECURSIVE DocQuestions(_, _)
DocQuestions(key, h) ==
    IF h >= Len(raw_lines) THEN << >>
    ELSE IF /\ SectionKeyOf(h) = key
            /\ QUESTION_START_RE(normalize_line(raw_lines[h + 1]))
            /\ DocQuestionText(h) # << >>
         THEN <<DocQuestionText(h)>> \o DocQuestions(key, h + 1)
         ELSE DocQuestions(key, h + 1)

\* a sequence without the elements that occurred earlier in it
FirstOccurrences(q) ==
    LET first(k) == \A n \in 1..(k - 1) : q[n] # q[k]
        RECURSIVE Keep(_)
        Keep(k) ==
            IF k > Len(q) THEN << >>
            ELSE IF first(k) THEN <<q[k]>> \o Keep(k + 1)
            ELSE Keep(k + 1)
    IN  Keep(1)

\* the question texts of a list of records
Texts(records) == [k \in 1..Len(records) |-> records[k].question]

\* C9: the sections whose headers resolve to one canonical key all feed that
\* key's list and bank, and the records are in document order: sections in
\* the order of their headers, questions in the order of their start lines;
\* deduplication removes records and does not reorder them.
C9_BankInDocumentOrder ==
    pc = "done" =>
        /\ \A e \in 1..Len(per_subject) :
               Texts(per_subject[e].val) = DocQuestions(per_subject[e].key, 0)
        /\ \A e \in 1..Len(banks) :
               Texts(banks[e].val) = FirstOccurrences(DocQuestions(banks[e].key, 0))

\* C9: two sections under two spellings of the general-knowledge header, each
\* with a question of its own, both in the one bank in document order
C9_Witness ==
    /\ pc = "done"
    /\ Len(blocks) = 2
    /\ raw_lines[blocks[1].start_idx] = L_gkl
    /\ raw_lines[blocks[2].start_idx] = L_gksf
    /\ Texts(BankOf("general-knowledge")) = << <<"Why", " ", "so">>, <<"What">> >>

QuestionOf(raw) ==
    CASE raw = L_qcell -> <<"What", " ", "is", " ", "the", " ", "powerhouse", " ",
                            "of", " ", "the", " ", "cell?">>
      [] raw = L_q1 -> <<"What">>
      [] raw = L_q3 -> <<"Why", " ", "so">>

\* the text of a lettered option line without its letter
OptionOf(raw) ==
    CASE raw = L_nucleus -> <<"Nucleus">>
      [] raw = L_mito -> <<"Mitochondria">>
      [] raw = L_ribo -> <<"Ribosome">>
      [] raw = L_optA -> <<"x">>
      [] raw = L_optA2 -> <<"w">>
      [] raw = L_optB -> <<"y", " ", "z">>
      [] raw = L_optC2 -> <<"s">>

\* C12: for a 2022 year header, a BIOLOGY header, one numbered question line
\* and option lines A, B, C in that order, the biology bank is one record:
\* the question line's text without its number, the three option texts in
\* the order A, B, C, the year 2022, no answer; the four other banks are empty.
C12_ScenarioOne ==
    pc = "done" =>
        /\ BankOf("biology") =
               << [question |-> QuestionOf(raw_lines[3]),
                   options |-> <<OptionOf(raw_lines[4]), OptionOf(raw_lines[5]),
                                 OptionOf(raw_lines[6])>>,
                   answer |-> None,
                   year |-> <<"2", "0", "2", "2">>] >>
        /\ \A key \in {"chemistry", "physics", "general-knowledge", "french"} :
               BankOf(key) = << >>
        /\ Len(banks) = 5

\* C12: the run on the very lines of the spec's scenario is over
C12_Witness ==
    /\ pc = "done"
    /\ raw_lines = <<L_year22, L_bio, L_qcell, L_nucleus, L_mito, L_ribo>>
    /\ Len(BankOf("biology")) = 1
    /\ BankOf("biology")[1].options = <<<<"Nucleus">>, <<"Mitochondria">>, <<"Ribosome">>>>

\* the letters of the option lines read for the latest question
LettersRead == { last_iter.assigned[k].letter : k \in 1..Len(last_iter.assigned) }

\* the option line at place k of those read is the last one with its letter
LastOfLetter(k) ==
    \A m \in (k + 1)..Len(last_iter.assigned) :
        last_iter.assigned[m].letter # last_iter.assigned[k].letter

\* C13 as stated: an emitted record has as many options as option lines were
\* read for it, also when a letter is on more than one of those lines.
C13_EntryPerOptionLine ==
    (pc = "parse" /\ last_iter.emitted) =>
        Len(questions[Len(questions)].options) = Len(last_iter.assigned)

\* C13: an emitted record has one option for each letter on the option lines
\* read for it: as many options as distinct letters, and for each letter the
\* text of the last line read with that letter; the text of an earlier line
\* with the same letter is replaced.
C13_EntryPerLetter ==
    (pc = "parse" /\ last_iter.emitted) =>
        LET r == questions[Len(questions)]
            a == last_iter.assigned
        IN  /\ Len(r.options) = Cardinality(LettersRead)
            /\ \A k \in 1..Len(a) :
                   LastOfLetter(k) =>
                       /\ DictGet(last_iter.options, a[k].letter) = a[k].opt_text
                       /\ \E o \in 1..Len(r.options) : r.options[o] = a[k].opt_text

\* C13: an emitted record for which two lines lettered A were read, with
\* different texts, and whose only option is the text of the second
C13_Witness ==
    /\ pc = "parse"
    /\ last_iter.emitted
    /\ Len(last_iter.assigned) = 2
    /\ last_iter.assigned[1].letter = "A"
    /\ last_iter.assigned[2].letter = "A"
    /\ last_iter.assigned[1].opt_text # last_iter.assigned[2].opt_text
    /\ questions[Len(questions)].options = <<last_iter.assigned[2].opt_text>>

\* the cursors of the latest pass that started a question are in order: the
\* question's line, then the line where its text ended, then each option line
\* read, each followed by the line where its wrapped text ended, which is the
\* next option line read or, for the last, the cursor the pass left
CursorsInOrder ==
    LET p == last_iter
        a == p.assigned
    IN  /\ p.start < p.text_end
        /\ p.text_end <= p.i
        /\ p.i <= Len(SubLines(CurBlock))
        /\ a = << >> => p.i = p.text_end
        /\ a # << >> =>
               /\ a[1].line = p.text_end
               /\ a[Len(a)].j = p.i
               /\ \A k \in 1..Len(a) : a[k].line < a[k].j
               /\ \A k \in 1..(Len(a) - 1) : a[k + 1].line = a[k].j

\* C14: parse_questions_from_block returns on every section.  Each pass of its
\* outer loop starts at the cursor the pass before it left and leaves a larger
\* cursor that is at most the section's length, so the lines two passes read,
\* and the records they emit, do not overlap; within a pass the cursor of the
\* option loop grows with each option line read and stays within the section.
C14_ExtractorTerminates ==
    /\ [][(pc = "parse" /\ pc' = "parse") =>
              /\ qi' > qi
              /\ qi' <= Len(SubLines(CurBlock))
              /\ last_iter'.start = qi
              /\ last_iter'.i = qi']_vars
    /\ []((pc = "parse" /\ last_iter.started) => CursorsInOrder)
    /\ (pc = "parse") ~> (pc = "blocks")

\* C14: the extractor has returned from a section of four lines after a pass
\* that skipped a line and a pass that read a question and two option lines
C14_Witness ==
    /\ pc = "blocks"
    /\ bi = 1
    /\ Len(SubLines(blocks[1])) = 4
    /\ qi = 4
    /\ last_iter.started
    /\ last_iter.start = 1
    /\ Len(last_iter.assigned) = 2
    /\ Len(questions) = 1
    /\ Len(questions[1].options) = 2

\* what is left of a question line of the sections after its number and the
\* punctuation and white space around it
RemainderOf(raw) ==
    CASE raw = L_q1 -> <<"What">>
      [] raw = L_qempty -> << >>

\* C15: the question text of an emitted record is what is left of its
\* question line after the number, then every later non-blank line before the
\* first line that starts an option or a question, or to the end of the
\* section, in order and joined by single spaces; the text ends at that line,
\* which is where the pass goes on to read options.
C15_QuestionTextIsAccumulated ==
    (pc = "parse" /\ last_iter.emitted) =>
        LET bl == SubLines(CurBlock)
            k == last_iter.start
        IN  /\ last_iter.text_end = StopAfter(bl, k)
            /\ questions[Len(questions)].question
                   = JoinText(<<RemainderOf(bl[k + 1])>> \o Between(bl, k, last_iter.text_end))

\* C15: an emitted record whose text took in a later line, passed over a blank
\* line and ended at an option line
C15_Witness ==
    /\ pc = "parse"
    /\ last_iter.emitted
    /\ last_iter.text_end = last_iter.start + 3
    /\ last_iter.text_end < Len(SubLines(CurBlock))
    /\ Len(last_iter.assigned) = 1
    /\ questions[Len(questions)].question = <<"What", " ", "more", " ", "text">>

\* the tokens of piece are in text, side by side and in order
Contains(text, piece) ==
    \E p \in 0..(Len(text) - Len(piece)) : SubSeq(text, p + 1, p + Len(piece)) = piece

\* the lines (0-based) of the section being parsed that are lettered F
LinesLetteredF == { k \in 0..(Len(SubLines(CurBlock)) - 1) : SubLines(CurBlock)[k + 1] = L_optF }

\* the place in last_iter.assigned of the last option line read before line k, 0 if none
OptionBefore(k) ==
    LET before == { m \in 1..Len(last_iter.assigned) : last_iter.assigned[m].line < k }
    IN  IF before = {} THEN 0 ELSE CHOOSE m \in before : \A n \in before : n <= m

MarkerWords == {"NATIONAL", "national", "QUALIFYING", "qualifying", "EXAM"}

\* no token of text is a word of the marker phrase
NoMarkerWord(text) == \A k \in 1..Len(text) : text[k] \notin MarkerWords

\* C17: a year header line inside a section starts no question, and no record
\* has a question text or an option text with words of a year header line.
C17_YearHeaderStartsNoQuestion ==
    /\ (pc = "parse" /\ last_iter.started) =>
           HeaderYear(SubLines(CurBlock)[last_iter.start + 1]) = << >>
    /\ \A r \in AllRecords :
           /\ NoMarkerWord(r.question)
           /\ \A o \in 1..Len(r.options) : NoMarkerWord(r.options[o])

\* the sections whose line range has document line h (0-based)
SectionsHolding(h) ==
    { k \in 1..Len(blocks) : blocks[k].start_idx <= h /\ h < blocks[k].end_idx }

\* the document lines the latest pass of the extractor read
LinesOfPass ==
    { CurBlock.start_idx + k : k \in last_iter.start..(last_iter.i - 1) }

\* C18: once the segmenter has returned, a line before the first recognized
\* subject header and a recognized subject header line are in no section, and
\* every other line is in exactly one, the section of the latest recognized
\* header before it.  The extractor reads lines of the section it is called
\* on only, so the records merged under a key are the questions of the lines
\* of that key's sections, in order, and no other line gives a record.
C18_SectionsPartition ==
    /\ pc # "segment" =>
           \A h \in 0..(Len(raw_lines) - 1) :
               IF SectionKeyOf(h) = None
               THEN SectionsHolding(h) = {}
               ELSE /\ Cardinality(SectionsHolding(h)) = 1
                    /\ \A k \in SectionsHolding(h) : blocks[k].subject_key = SectionKeyOf(h)
    /\ (pc = "parse" /\ last_iter.start >= 0) =>
           \A h \in LinesOfPass :
               /\ h < Len(raw_lines)
               /\ SectionKeyOf(h) = CurBlock.subject_key
    /\ pc \in {"write", "done"} =>
           \A e \in 1..Len(per_subject) :
               Texts(per_subject[e].val) = DocQuestions(per_subject[e].key, 0)

\* C18: the run is over on a document with a question line above its first
\* header, the same line in the section of that header, and a second header
\* on the last line: the first section has one line, the second none, and the
\* one record comes from the line in the section
C18_Witness ==
    /\ pc = "done"
    /\ raw_lines = <<L_q1, L_bio, L_q1, L_chem>>
    /\ SectionsHolding(0) = {}
    /\ SectionsHolding(2) = {1}
    /\ Len(ItemsOf("biology")) = 1
    /\ Len(BankOf("biology")) = 1
    /\ BankOf("chemistry") = << >>

=============================================================================
